---- MODULE Spec2Model ----
(***************************************************************************)
(* django-mailinglist-registration: the Subscriber / RegistrationProfile   *)
(* store, the managers of models.py, the signup form of forms.py and the   *)
(* three view backends (default double opt-in, simple single-step,         *)
(* messages flash-message), as a state machine whose steps are whole HTTP  *)
(* requests, the cleanupregistration sweep, administrator edits and the    *)
(* passing of time.                                                        *)
(*                                                                         *)
(* Strings are sequences of tokens: an email is <<local, "@", domain>>,    *)
(* a SHA1 hexdigest of data d is <<"sha1:">> \o d (40 lowercase hex        *)
(* characters standing for the digest of d), the empty string is <<>>.     *)
(***************************************************************************)
EXTENDS Integers, Sequences, FiniteSets, TLC

\* ---------------------------------------------------------------- bounds
MaxTime == 1            \* days the clock may advance
MaxRequests == 3        \* requests that the concurrent site serves
ActivationDays == 1     \* the setting MAILINGLIST_ACTIVATION_DAYS of the site
MaxId == 2              \* largest primary key a table hands out
MaxSalts == 3           \* different salts that create_profile draws

\* ------------------------------------------------------- string helpers
\* tokens the EmailField accepts as local part and as domain
LocalParts == {"bob", "Bob", "alice"}
DomainParts == {"example.com", "EXAMPLE.COM"}

\* hashlib.sha1(str(random.random())).hexdigest()[:5]: the salts, in the
\* order in which random yields them for the first time
SaltName == <<"0a1b2", "3f827", "c41d9", "7be05", "e9d60", "15a3c">>

\* The salt has 20 bits.  After n different salts have been drawn, the next
\* draw gives a salt not drawn before (nearly always) or one of the n drawn
\* before (one time in 16^5 for each).
Salts(n) == {SaltName[i] : i \in 1..(n + 1)}

\* the number of different salts drawn, after a draw of salt
Drawn(n, salt) == IF salt = SaltName[n + 1] THEN n + 1 ELSE n

\* the step of create_inactive_subscriber that raises, if any
Faults == {"none", "profile", "mail"}

\* Signal.send with a receiver that raises (mail_managers of receivers.py
\* cannot reach the mail server): the exception leaves send and the view
SignalFaults == {"none", "signal"}

\* backends/default, backends/simple, backends/messages
Variants == {"default", "simple", "messages"}

\* str.lower() on one token
LowerTok(t) ==
    CASE t = "Bob" -> "bob"
      [] t = "EXAMPLE.COM" -> "example.com"
      [] OTHER -> t

\* str.lower()
lower(s) == [i \in DOMAIN s |-> LowerTok(s[i])]

RECURSIVE lstrip(_)
lstrip(s) == IF s # <<>> /\ Head(s) = " " THEN lstrip(Tail(s)) ELSE s

RECURSIVE rstrip(_)
rstrip(s) ==
    IF s # <<>> /\ s[Len(s)] = " " THEN rstrip(SubSeq(s, 1, Len(s) - 1)) ELSE s

\* str.strip()
strip(s) == rstrip(lstrip(s))

\* hashlib.sha1(data).hexdigest()
hexdigest(data) == <<"sha1:">> \o data

\* a pattern that every key matches
SHA1_RE_Any(key) == TRUE

\* SHA1_RE.search(key): the key is 40 lowercase hex characters
SHA1_RE(key) == key # <<>> /\ key[1] = "sha1:"

ACTIVATED == <<"ALREADY_ACTIVATED">>

\* SubscriberManager.normalize_email: lowercase the domain part
normalize_email(email) ==
    LET stripped == strip(email)
        ats == {i \in DOMAIN stripped : stripped[i] = "@"}
    IN  IF ats = {} THEN email
        ELSE LET at == CHOOSE i \in ats : \A j \in ats : j <= i
                 email_name == SubSeq(stripped, 1, at - 1)
                 domain_part == SubSeq(stripped, at + 1, Len(stripped))
             IN  email_name \o <<"@">> \o lower(domain_part)

\* forms.EmailField: strip the value, require it, validate its syntax
EmailField_clean(value) == strip(value)

EmailField_valid(value) ==
    LET v == strip(value)
    IN  /\ Len(v) = 3
        /\ v[1] \in LocalParts
        /\ v[2] = "@"
        /\ v[3] \in DomainParts

\* Subscriber.objects.filter(email__iexact=email)
filter_email_iexact(subs, email) ==
    {s \in subs : lower(s.email) = lower(email)}

\* clean_email that lets an address through while its Subscriber is
\* inactive
clean_email_ok_ActiveOnly(subs, email) ==
    {s \in filter_email_iexact(subs, email) : s.is_active} = {}

\* clean_email comparing the address exactly instead of ignoring case
clean_email_ok_Exact(subs, email) == {s \in subs : s.email = email} = {}

\* RegistrationForm.clean_email raises ValidationError on a duplicate
clean_email_ok(subs, email) == filter_email_iexact(subs, email) = {}

\* RegistrationForm.is_valid()
form_is_valid(subs, value) ==
    /\ EmailField_valid(value)
    /\ clean_email_ok(subs, EmailField_clean(value))


\* ------------------------------------------------------------ the store
\* models.Model rows.  Subscriber: id, email, date_joined, is_active,
\* deactivation_key.  RegistrationProfile: id, subscriber (foreign key),
\* activation_key.
\* a Subscriber row that holds a digest of its email as deactivation key
\* from the start
NewSubscriber_Keyed(id, email, joined) ==
    [id |-> id, email |-> email, date_joined |-> joined,
     is_active |-> TRUE, deactivation_key |-> hexdigest(email)]

NewSubscriber(id, email, joined) ==
    [id |-> id, email |-> email, date_joined |-> joined,
     is_active |-> TRUE, deactivation_key |-> <<>>]

NewProfile(id, sid, key) ==
    [id |-> id, subscriber |-> sid, activation_key |-> key]

\* a save() that inserts the object and leaves the stored row in place
save_Append(rows, obj) == rows \cup {obj}

\* Model.save() of an existing row: replace the row with the same pk
save(rows, obj) == {r \in rows : r.id # obj.id} \cup {obj}

\* Subscriber.delete(): the foreign key of RegistrationProfile cascades
delete_subscriber(db, sid) ==
    [subscribers |-> {s \in db.subscribers : s.id # sid},
     profiles |-> {p \in db.profiles : p.subscriber # sid}]

\* a delete() that empties the RegistrationProfile table
delete_profile_All(db, pid) ==
    [subscribers |-> db.subscribers, profiles |-> {}]

\* RegistrationProfile.delete()
delete_profile(db, pid) ==
    [subscribers |-> db.subscribers,
     profiles |-> {p \in db.profiles : p.id # pid}]

\* rows in primary-key order, as a queryset without ordering yields them
RECURSIVE ById(_)
ById(rows) ==
    IF rows = {} THEN <<>>
    ELSE LET r == CHOOSE x \in rows : \A y \in rows : x.id <= y.id
         IN  <<r>> \o ById(rows \ {r})

\* RegistrationProfile.activation_key_expired, given the profile's
\* subscriber row
activation_key_expired(profile, subscriber, now, days) ==
    \/ profile.activation_key = ACTIVATED
    \/ subscriber.date_joined + days <= now

\* activation that flips is_active instead of setting it
activated_Toggle(subscriber, profile) ==
    [subscriber EXCEPT !.is_active = ~subscriber.is_active,
                       !.deactivation_key = profile.activation_key]

\* activation that leaves the deactivation key unset
activated_NoKey(subscriber, profile) ==
    [subscriber EXCEPT !.is_active = TRUE]

\* activate_subscriber: the Subscriber as saved on success
activated(subscriber, profile) ==
    [subscriber EXCEPT !.is_active = TRUE,
                       !.deactivation_key = profile.activation_key]

\* activate_subscriber: the profile as saved on success
consumed(profile) == [profile EXCEPT !.activation_key = ACTIVATED]

\* an activation that looks any key up and tests only the date, so that a
\* profile holding the sentinel can be activated again
activate_subscriber_Relaxed(db, activation_key, now, days) ==
    LET found == {p \in db.profiles : p.activation_key = activation_key}
        owners == {s \in db.subscribers :
                     \E p \in found : s.id = p.subscriber}
        fetch == <<"RegistrationProfile.objects.get", "profile.subscriber">>
    IN  IF /\ Cardinality(found) = 1
           /\ Cardinality(owners) = 1
           /\ \A s \in owners : now < s.date_joined + days
        THEN LET profile == CHOOSE p \in found : TRUE
                 subscriber == CHOOSE s \in owners : TRUE
             IN  [subscribers |->
                     save(db.subscribers, activated(subscriber, profile)),
                  profiles |-> save(db.profiles, consumed(profile)),
                  ret |-> subscriber.id, raised |-> "", lookups |-> fetch]
        ELSE [subscribers |-> db.subscribers, profiles |-> db.profiles,
              ret |-> 0, raised |-> "", lookups |-> fetch]

\* RegistrationManager.activate_subscriber.  ret is the id of the activated
\* Subscriber, 0 for False; raised names an exception that escapes; lookups
\* are the rows the call asked the database for, in order.
activate_subscriber(db, activation_key, now, days) ==
    LET unchanged(r, e, q) ==
            [subscribers |-> db.subscribers, profiles |-> db.profiles,
             ret |-> r, raised |-> e, lookups |-> q]
        get == <<"RegistrationProfile.objects.get">>
        fetch == get \o <<"profile.subscriber">>
    IN
    IF ~SHA1_RE(activation_key) THEN unchanged(0, "", <<>>)
    ELSE
    LET found == {p \in db.profiles : p.activation_key = activation_key}
    IN  IF found = {} THEN unchanged(0, "", get)
        ELSE IF Cardinality(found) > 1
        THEN unchanged(0, "MultipleObjectsReturned", get)
        ELSE
        LET profile == CHOOSE p \in found : TRUE
            owners == {s \in db.subscribers : s.id = profile.subscriber}
        IN  IF owners = {} THEN unchanged(0, "DoesNotExist", fetch)
            ELSE
            LET subscriber == CHOOSE s \in owners : TRUE
            IN  IF activation_key_expired(profile, subscriber, now, days)
                THEN unchanged(0, "", fetch)
                ELSE
                [subscribers |->
                    save(db.subscribers, activated(subscriber, profile)),
                 profiles |-> save(db.profiles, consumed(profile)),
                 ret |-> subscriber.id,
                 raised |-> "",
                 lookups |-> fetch]

\* activate_subscriber up to its test of the key: the profile and the
\* Subscriber it read when the key may be activated, as <<profile,
\* subscriber>>; <<>> when it returns False; raised names an exception
activate_read(db, activation_key, now, days) ==
    LET found == {p \in db.profiles : p.activation_key = activation_key}
        owners == {s \in db.subscribers :
                     \E p \in found : s.id = p.subscriber}
    IN  IF ~SHA1_RE(activation_key) \/ found = {}
        THEN [read |-> <<>>, raised |-> ""]
        ELSE IF Cardinality(found) > 1
        THEN [read |-> <<>>, raised |-> "MultipleObjectsReturned"]
        ELSE IF owners = {}
        THEN [read |-> <<>>, raised |-> "DoesNotExist"]
        ELSE LET profile == CHOOSE p \in found : TRUE
                 subscriber == CHOOSE s \in owners : TRUE
             IN  IF activation_key_expired(profile, subscriber, now, days)
                 THEN [read |-> <<>>, raised |-> ""]
                 ELSE [read |-> <<profile, subscriber>>, raised |-> ""]

\* activate_subscriber from there on, first commit: subscriber.save() of
\* the Subscriber it read, as it changed it
activate_save_subscriber(db, profile, subscriber) ==
    [subscribers |-> save(db.subscribers, activated(subscriber, profile)),
     profiles |-> db.profiles]

\* activate_subscriber, second commit: profile.save() of the profile it
\* read, with the sentinel
activate_save_profile(db, profile) ==
    [subscribers |-> db.subscribers,
     profiles |-> save(db.profiles, consumed(profile))]

\* RegistrationAdmin.activate_subscribers: for profile in queryset, call
\* activate_subscriber with the key the profile had when the queryset was
\* read; an exception ends the loop and leaves what was saved before it
RECURSIVE activate_subscribers(_, _, _, _)
activate_subscribers(queryset, db, now, days) ==
    IF queryset = <<>>
    THEN [subscribers |-> db.subscribers, profiles |-> db.profiles,
          raised |-> ""]
    ELSE LET r == activate_subscriber(db, Head(queryset).activation_key,
                                      now, days)
         IN  IF r.raised # ""
             THEN [subscribers |-> r.subscribers, profiles |-> r.profiles,
                   raised |-> r.raised]
             ELSE activate_subscribers(
                      Tail(queryset),
                      [subscribers |-> r.subscribers,
                       profiles |-> r.profiles],
                      now, days)

\* RegistrationManager.create_profile
create_profile(db, pid, subscriber, salt) ==
    LET activation_key == hexdigest(<<salt>> \o subscriber.email)
    IN  [subscribers |-> db.subscribers,
         profiles |-> db.profiles
                        \cup {NewProfile(pid, subscriber.id, activation_key)}]

\* create_subscriber that dates every Subscriber to the start of the clock
create_subscriber_Epoch(db, sid, email, now) ==
    [subscribers |->
        db.subscribers
            \cup {[NewSubscriber(sid, normalize_email(email), now)
                      EXCEPT !.date_joined = 0]},
     profiles |-> db.profiles]

\* create_subscriber that leaves the new Subscriber switched off
create_subscriber_Inactive(db, sid, email, now) ==
    [subscribers |->
        db.subscribers
            \cup {[NewSubscriber(sid, normalize_email(email), now)
                      EXCEPT !.is_active = FALSE]},
     profiles |-> db.profiles]

\* SubscriberManager.create_subscriber (email is not empty)
create_subscriber(db, sid, email, now) ==
    [subscribers |-> db.subscribers
                       \cup {NewSubscriber(sid, normalize_email(email), now)},
     profiles |-> db.profiles]

\* RegistrationProfile.send_activation_email: the message handed to
\* send_mail
activation_email(profile, subscriber, days) ==
    [to |-> subscriber.email, activation_key |-> profile.activation_key,
     expiration_days |-> days]

\* a decorator that commits whatever the body wrote
commit_on_success_NoRollback(entry, body) == body

\* transaction.commit_on_success: commit the body's writes when it returns,
\* roll back to the state at entry when it raises
commit_on_success(entry, body) ==
    IF body.raised = "" THEN body
    ELSE [body EXCEPT !.subscribers = entry.subscribers,
                      !.profiles = entry.profiles]

\* create_inactive_subscriber that forgets to clear is_active
inactive_StillActive(subscriber) == subscriber

\* create_inactive_subscriber: new_subscriber.is_active = False
inactive(subscriber) == [subscriber EXCEPT !.is_active = FALSE]

\* body of RegistrationManager.create_inactive_subscriber; fault names the
\* step that raises ("profile": the INSERT of create_profile, "mail":
\* send_mail), "none" when every step succeeds
create_inactive_subscriber_body(db, sid, pid, email, salt, now, days, send_email, fault) ==
    LET db1 == create_subscriber(db, sid, email, now)
        created == CHOOSE s \in db1.subscribers : s.id = sid
        new_subscriber == inactive(created)
        db2 == [db1 EXCEPT !.subscribers = save(@, new_subscriber)]
        db3 == create_profile(db2, pid, new_subscriber, salt)
        registration_profile ==
            NewProfile(pid, sid, hexdigest(<<salt>> \o new_subscriber.email))
    IN  IF fault = "profile"
        THEN [subscribers |-> db2.subscribers, profiles |-> db2.profiles,
              mail |-> <<>>, ret |-> 0, raised |-> "DatabaseError"]
        ELSE IF send_email /\ fault = "mail"
        THEN [subscribers |-> db3.subscribers, profiles |-> db3.profiles,
              mail |-> <<>>, ret |-> 0, raised |-> "SMTPException"]
        ELSE [subscribers |-> db3.subscribers, profiles |-> db3.profiles,
              mail |-> IF send_email
                       THEN <<activation_email(registration_profile,
                                               new_subscriber, days)>>
                       ELSE <<>>,
              ret |-> sid, raised |-> ""]

\* RegistrationManager.create_inactive_subscriber
create_inactive_subscriber(db, sid, pid, email, salt, now, days, send_email, fault) ==
    commit_on_success(db,
        create_inactive_subscriber_body(db, sid, pid, email, salt, now, days,
                                        send_email, fault))

\* a sweep that does not look at is_active
sweep_deletes_Active(profile, subscriber, now, days) ==
    activation_key_expired(profile, subscriber, now, days)

\* delete_expired_subscribers: the two tests that guard the deletion
sweep_deletes(profile, subscriber, now, days) ==
    /\ activation_key_expired(profile, subscriber, now, days)
    /\ ~subscriber.is_active

\* RegistrationManager.delete_expired_subscribers: one pass of the loop
\* per profile of the queryset
RECURSIVE delete_expired_loop(_, _, _, _)
delete_expired_loop(all, db, now, days) ==
    IF all = <<>> THEN db
    ELSE
    LET profile == Head(all)
        owners == {s \in db.subscribers : s.id = profile.subscriber}
        after ==
            IF owners = {} THEN delete_profile(db, profile.id)
            ELSE LET subscriber == CHOOSE s \in owners : TRUE
                 IN  IF sweep_deletes(profile, subscriber, now, days)
                     THEN delete_profile(delete_subscriber(db, subscriber.id),
                                         profile.id)
                     ELSE db
    IN  delete_expired_loop(Tail(all), after, now, days)

\* a sweep that walks the Subscribers instead of the profiles
delete_expired_subscribers_BySubscriber(db, now, days) ==
    LET kept == {s \in db.subscribers :
                   s.is_active \/ now < s.date_joined + days}
    IN  [subscribers |-> kept,
         profiles |-> {p \in db.profiles :
                         \E s \in kept : s.id = p.subscriber}]

\* RegistrationManager.delete_expired_subscribers: for profile in self.all()
delete_expired_subscribers(db, now, days) ==
    delete_expired_loop(ById(db.profiles), db, now, days)

\* SubscriberManager.deactivate_subscriber.  ret is TRUE for True, FALSE
\* for False; raised names an exception that escapes; lookups are the rows
\* the call asked the database for, in order.
deactivate_subscriber(db, deactivation_key) ==
    LET unchanged(e, q) ==
            [subscribers |-> db.subscribers, profiles |-> db.profiles,
             ret |-> FALSE, raised |-> e, lookups |-> q]
        get == <<"Subscriber.objects.get">>
        both == get \o <<"RegistrationProfile.objects.get">>
    IN
    IF ~SHA1_RE(deactivation_key) THEN unchanged("", <<>>)
    ELSE
    LET found == {s \in db.subscribers :
                    s.deactivation_key = deactivation_key}
    IN  IF found = {} THEN unchanged("", get)
        ELSE IF Cardinality(found) > 1
        THEN unchanged("MultipleObjectsReturned", get)
        ELSE
        LET subscriber == CHOOSE s \in found : TRUE
            owned == {p \in db.profiles : p.subscriber = subscriber.id}
        IN  IF owned = {} THEN unchanged("UnboundLocalError", both)
            ELSE IF Cardinality(owned) > 1
            THEN unchanged("MultipleObjectsReturned", both)
            ELSE
            LET profile == CHOOSE p \in owned : TRUE
                db1 == delete_profile(db, profile.id)
                db2 == delete_subscriber(db1, subscriber.id)
            IN  [subscribers |-> db2.subscribers, profiles |-> db2.profiles,
                 ret |-> TRUE, raised |-> "", lookups |-> both]


\* ----------------------------------------------------------------- views
\* a gate that never closes
registration_allowed_Always(variant, open) == TRUE

\* RegistrationView.registration_allowed of each backend; open is the
\* setting MAILINGLIST_REGISTRATION_OPEN ("unset" when it is not defined)
registration_allowed(variant, open) ==
    IF variant = "messages" THEN TRUE
    ELSE open # "False"

\* RegistrationView.get_success_url of each backend
registration_success_url(variant) ==
    CASE variant = "default" -> "mailinglist_registration_complete"
      [] variant = "simple" -> "mailinglist_registration_confirmed"
      [] OTHER -> "/"

\* ActivationView.get of the default and of the messages backend: the
\* response, given what activate returned (0: False)
activation_response(variant, activated_subscriber) ==
    IF variant = "default"
    THEN IF activated_subscriber # 0
         THEN "redirect:mailinglist_registration_activation_complete"
         ELSE "render:mailinglist/activate.html"
    ELSE "redirect:/"

Event(signal, sender, sid, email) ==
    [signal |-> signal, sender |-> sender, subscriber |-> sid,
     email |-> email]

\* a register that runs in one transaction with its signal: a receiver
\* that raises undoes the Subscriber and the profile
register_Atomic(variant, db, sid, pid, email, salt, now, days, fault) ==
    LET db1 == create_subscriber(db, sid, email, now)
        r == IF variant = "simple"
             THEN [subscribers |-> db1.subscribers, profiles |-> db1.profiles,
                   mail |-> <<>>, ret |-> sid, raised |-> ""]
             ELSE create_inactive_subscriber(db, sid, pid, email, salt, now,
                                             days, TRUE, fault)
        sent == <<Event("subscriber_registered", variant, r.ret, <<>>)>>
    IN  IF r.raised = "" /\ fault = "signal"
        THEN [subscribers |-> db.subscribers, profiles |-> db.profiles,
              mail |-> r.mail, ret |-> r.ret, raised |-> "ReceiverError",
              events |-> sent]
        ELSE [subscribers |-> r.subscribers, profiles |-> r.profiles,
              mail |-> r.mail, ret |-> r.ret, raised |-> r.raised,
              events |-> IF r.raised = "" THEN sent ELSE <<>>]

\* a register that sends subscriber_registered before it creates anything,
\* and so also when the creation fails
register_EventFirst(variant, db, sid, pid, email, salt, now, days, fault) ==
    LET db1 == create_subscriber(db, sid, email, now)
        r == IF variant = "simple"
             THEN [subscribers |-> db1.subscribers, profiles |-> db1.profiles,
                   mail |-> <<>>, ret |-> sid, raised |-> ""]
             ELSE create_inactive_subscriber(db, sid, pid, email, salt, now,
                                             days, TRUE, fault)
    IN  [subscribers |-> r.subscribers, profiles |-> r.profiles,
         mail |-> r.mail, ret |-> r.ret,
         raised |-> IF r.raised = "" /\ fault = "signal"
                    THEN "ReceiverError" ELSE r.raised,
         events |-> <<Event("subscriber_registered", variant, sid, <<>>)>>]

\* RegistrationView.register of each backend.  ret is the id of the new
\* Subscriber; events are the signals sent.
register(variant, db, sid, pid, email, salt, now, days, fault) ==
    IF variant = "simple"
    THEN LET db1 == create_subscriber(db, sid, email, now)
         IN  [subscribers |-> db1.subscribers, profiles |-> db1.profiles,
              mail |-> <<>>, ret |-> sid,
              raised |-> IF fault = "signal" THEN "ReceiverError" ELSE "",
              events |-> <<Event("subscriber_registered", variant, sid,
                                 <<>>)>>]
    ELSE LET r == create_inactive_subscriber(db, sid, pid, email, salt, now,
                                             days, TRUE, fault)
         IN  [subscribers |-> r.subscribers, profiles |-> r.profiles,
              mail |-> r.mail, ret |-> r.ret,
              raised |-> IF r.raised = "" /\ fault = "signal"
                         THEN "ReceiverError" ELSE r.raised,
              events |-> IF r.raised = ""
                         THEN <<Event("subscriber_registered", variant,
                                      r.ret, <<>>)>>
                         ELSE <<>>]

\* ----------------------------------------------------------------- state
VARIABLES
    subscribers,   \* rows of the Subscriber table
    profiles,      \* rows of the RegistrationProfile table
    now,           \* timezone.now(), in days
    settings,      \* django.conf.settings
    urlconf,       \* the backend whose URLconf the site includes
    last,          \* the request just served: its inputs and its outcome
    inflight,      \* requests served concurrently: those between two of
                   \* their steps and those that have ended
    drawn          \* the number of different salts drawn so far

vars ==
    <<subscribers, profiles, now, settings, urlconf, last, inflight, drawn>>

DB == [subscribers |-> subscribers, profiles |-> profiles]

\* AutoField ("id" integer NOT NULL PRIMARY KEY): the database gives a new
\* row one more than the largest primary key of the table, 1 in an empty
\* table
NextId(rows) ==
    IF rows = {} THEN 1
    ELSE (CHOOSE i \in {r.id : r \in rows} : \A r \in rows : r.id <= i) + 1

\* op: the handler; arg: the email or key submitted; response: the redirect
\* or page returned, "error" when an exception escaped (raised names it);
\* ret: the id of the Subscriber the manager returned (0: none / False);
\* events: the signals sent; flash: the level of the flash message added;
\* mail: the messages handed to send_mail; pre: the tables before the
\* request; lookups: the rows the manager asked the database for;
\* readmitted: the address of this signup is one that the sweep, run just
\* before the request, removed with its never activated Subscriber
Request(op, method, arg, fault, response, ret, raised, events, flash, mail) ==
    [op |-> op, method |-> method, arg |-> arg, fault |-> fault,
     response |-> response, ret |-> ret, raised |-> raised,
     events |-> events, flash |-> flash, mail |-> mail, pre |-> DB,
     lookups |-> <<>>, readmitted |-> FALSE]

Other(op, ret) ==
    Request(op, "", <<>>, "none", "", ret, "", <<>>, "", <<>>)

OpenValues == {"unset", "False"}

\* a site that includes the URLconf of one of the backends and whose
\* settings module gives MAILINGLIST_REGISTRATION_OPEN the value open
\* ("unset": the setting is left out), with empty tables
InitWith(backends, open) ==
    /\ subscribers = {}
    /\ profiles = {}
    /\ now = 0
    /\ settings = [MAILINGLIST_ACTIVATION_DAYS |-> ActivationDays,
                   MAILINGLIST_REGISTRATION_OPEN |-> open]
    /\ urlconf \in backends
    /\ inflight = {}
    /\ drawn = 0
    /\ last = [Other("none", 0) EXCEPT
                  !.pre = [subscribers |-> {}, profiles |-> {}]]

Init == InitWith(Variants, "unset")

InitDefault == InitWith({"default"}, "unset")

InitSimple == InitWith({"simple"}, "unset")

InitMessages == InitWith({"messages"}, "unset")

\* inputs of the signup form
EmailInputs ==
    {<<"bob", "@", "example.com">>, <<"Bob", "@", "EXAMPLE.COM">>,
     <<" ", "alice", "@", "EXAMPLE.COM", " ">>, <<"bob">>}

\* addresses the site's own code enrols through the managers
ManagerInputs == {<<"alice", "@", "EXAMPLE.COM">>}

\* keys a visitor can present in confirm/<key>/ and unsubscribe/<key>/: the
\* pattern \w+ takes one character or more, so never the empty string.
\* Every key the store holds (the sentinel among them once a profile holds
\* it), the keys that the salts drawn so far give for the addresses on the
\* list (among them the keys mailed to these addresses earlier), the key of
\* the previous request, the digest of "foo", the string "foo"
KeyInputs ==
    {k \in {p.activation_key : p \in profiles}
              \cup {s.deactivation_key : s \in subscribers}
              \cup {hexdigest(<<SaltName[i]>> \o s.email) :
                       i \in 1..drawn, s \in subscribers}
              \cup (IF last.op \in {"confirm", "unsubscribe", "deregister"}
                    THEN {last.arg} ELSE {})
              \cup {hexdigest(<<"foo">>), <<"foo">>} :
        k # <<>>}

\* RegistrationView.dispatch with _RequestPassingFormView.get / post and
\* RegistrationView.form_valid: one GET or POST of the signup page
Signup(method, value) ==
    LET days == settings.MAILINGLIST_ACTIVATION_DAYS
        open == settings.MAILINGLIST_REGISTRATION_OPEN
        email == EmailField_clean(value)
        readmitted ==
            /\ method = "POST"
            /\ last.op = "sweep"
            /\ \E s \in last.pre.subscribers \ subscribers :
                  /\ lower(s.email) = lower(email)
                  /\ s.deactivation_key = <<>>
        quiet(response) ==
            /\ UNCHANGED <<subscribers, profiles, now, settings, urlconf,
                           inflight, drawn>>
            /\ last' = [Request("signup", method, value, "none", response,
                                0, "", <<>>, "", <<>>)
                           EXCEPT !.readmitted = readmitted]
    IN
    IF ~registration_allowed(urlconf, open)
    THEN quiet("redirect:mailinglist_registration_disallowed")
    ELSE IF method = "GET"
    THEN quiet("render:form")
    ELSE IF ~form_is_valid(subscribers, value)
    THEN quiet("render:form_errors")
    ELSE
        \E salt \in IF urlconf = "simple" THEN {SaltName[1]}
                    ELSE Salts(drawn),
           fault \in IF urlconf = "simple" THEN SignalFaults
                     ELSE Faults \cup SignalFaults :
            LET r == register(urlconf, DB, NextId(subscribers),
                              NextId(profiles), email, salt, now, days,
                              fault)
            IN  /\ NextId(subscribers) <= MaxId
                /\ NextId(profiles) <= MaxId
                /\ urlconf # "simple" => drawn < MaxSalts
                /\ subscribers' = r.subscribers
                /\ profiles' = r.profiles
                /\ drawn' = IF profiles' = profiles THEN drawn
                            ELSE Drawn(drawn, salt)
                /\ UNCHANGED <<now, settings, urlconf, inflight>>
                /\ last' = [Request("signup", method, value, fault,
                                    IF r.raised # "" THEN "error"
                                    ELSE "redirect:" \o
                                         registration_success_url(urlconf),
                                    r.ret, r.raised, r.events,
                                    IF r.raised = "" /\ urlconf = "messages"
                                    THEN "info" ELSE "",
                                    r.mail)
                               EXCEPT !.readmitted = readmitted]

\* ActivationView.get of the default and the messages backend, with
\* ActivationView.activate: one GET of confirm/<activation_key>
Confirm(activation_key) ==
    LET days == settings.MAILINGLIST_ACTIVATION_DAYS
        r == activate_subscriber(DB, activation_key, now, days)
        sent == <<Event("subscriber_activated", urlconf, r.ret, <<>>)>>
    IN  \E fault \in IF r.ret = 0 THEN {"none"} ELSE SignalFaults :
        LET raised == IF fault = "signal" THEN "ReceiverError" ELSE r.raised
            events == IF r.ret = 0 THEN <<>>
                      ELSE IF urlconf = "default" /\ fault = "none"
                      THEN sent \o sent
                      ELSE sent
            response ==
                IF raised # "" THEN "error"
                ELSE activation_response(urlconf, r.ret)
            flash == IF raised # "" \/ urlconf = "default" THEN ""
                     ELSE IF r.ret # 0 THEN "success" ELSE "error"
        IN  /\ urlconf \in {"default", "messages"}
            /\ subscribers' = r.subscribers
            /\ profiles' = r.profiles
            /\ UNCHANGED <<now, settings, urlconf, inflight, drawn>>
            /\ last' = [Request("confirm", "GET", activation_key, fault,
                                response, r.ret, raised, events, flash,
                                <<>>)
                           EXCEPT !.lookups = r.lookups]

\* DeRegistrationView.get of the messages backend: one GET of
\* unsubscribe/<deactivation_key>
Unsubscribe(deactivation_key) ==
    LET r == deactivate_subscriber(DB, deactivation_key)
        events == IF r.ret
                  THEN <<Event("subscriber_deactivated", urlconf, 0,
                               <<"True">>)>>
                  ELSE <<>>
    IN  \E fault \in IF r.ret THEN SignalFaults ELSE {"none"} :
        LET raised == IF fault = "signal" THEN "ReceiverError" ELSE r.raised
        IN  /\ urlconf = "messages"
            /\ subscribers' = r.subscribers
            /\ profiles' = r.profiles
            /\ UNCHANGED <<now, settings, urlconf, inflight, drawn>>
            /\ last' = [Request("unsubscribe", "GET", deactivation_key,
                                fault,
                                IF raised # "" THEN "error"
                                ELSE "redirect:/",
                                IF r.ret THEN 1 ELSE 0, raised, events,
                                IF raised # "" THEN ""
                                ELSE IF r.ret THEN "info" ELSE "error",
                                <<>>)
                           EXCEPT !.lookups = r.lookups]

\* views.DeRegistrationView.get, the view a site of the default or the
\* simple backend routes for itself (their URLconfs have no unsubscribe
\* pattern): deactivate_subscriber, then redirect(success_url) with a name
\* that is not defined, or TemplateView.get without a template_name
Deregister(deactivation_key) ==
    LET r == deactivate_subscriber(DB, deactivation_key)
        raised == IF r.raised # "" THEN r.raised
                  ELSE IF r.ret THEN "NameError"
                  ELSE "ImproperlyConfigured"
    IN  /\ urlconf \in {"default", "simple"}
        /\ subscribers' = r.subscribers
        /\ profiles' = r.profiles
        /\ UNCHANGED <<now, settings, urlconf, inflight, drawn>>
        /\ last' = [Request("deregister", "GET", deactivation_key, "none",
                            "error", IF r.ret THEN 1 ELSE 0, raised, <<>>,
                            "", <<>>)
                       EXCEPT !.lookups = r.lookups]

\* RegistrationAdmin.activate_subscribers called with a queryset of
\* profiles: no request of a visitor, no response, no signal
AdminActivate(queryset) ==
    LET r == activate_subscribers(ById(queryset), DB, now,
                                  settings.MAILINGLIST_ACTIVATION_DAYS)
    IN  /\ queryset # {}
        /\ subscribers' = r.subscribers
        /\ profiles' = r.profiles
        /\ UNCHANGED <<now, settings, urlconf, inflight, drawn>>
        /\ last' = [Other("admin_activate", 0) EXCEPT !.raised = r.raised]

\* Subscriber.objects.create_subscriber(email) followed by
\* RegistrationProfile.objects.create_profile(subscriber): the site's own
\* code enrols an address through the managers, which do not look whether
\* a Subscriber holds it.  The Subscriber is active from the start and has
\* a profile with a key.
CreateProfile(email) ==
    \E salt \in Salts(drawn) :
        LET sid == NextId(subscribers)
            db1 == create_subscriber(DB, sid, email, now)
            new_subscriber == CHOOSE s \in db1.subscribers : s.id = sid
            db2 == create_profile(db1, NextId(profiles), new_subscriber, salt)
        IN  /\ sid <= MaxId
            /\ NextId(profiles) <= MaxId
            /\ drawn < MaxSalts
            /\ subscribers' = db2.subscribers
            /\ profiles' = db2.profiles
            /\ drawn' = Drawn(drawn, salt)
            /\ UNCHANGED <<now, settings, urlconf, inflight>>
            /\ last' = Request("create_profile", "", email, "none", "", sid,
                               "", <<>>, "", <<>>)

\* RegistrationProfile.objects.create_inactive_subscriber(email, site,
\* send_email) called by the site's own code, without the form
CreateInactiveSubscriber(email, send_email) ==
    \E salt \in Salts(drawn), fault \in Faults :
        LET r == create_inactive_subscriber(
                     DB, NextId(subscribers), NextId(profiles), email, salt,
                     now, settings.MAILINGLIST_ACTIVATION_DAYS, send_email,
                     fault)
        IN  /\ NextId(subscribers) <= MaxId
            /\ NextId(profiles) <= MaxId
            /\ drawn < MaxSalts
            /\ fault = "mail" => send_email
            /\ subscribers' = r.subscribers
            /\ profiles' = r.profiles
            /\ drawn' = IF profiles' = profiles THEN drawn
                        ELSE Drawn(drawn, salt)
            /\ UNCHANGED <<now, settings, urlconf, inflight>>
            /\ last' = Request("create_inactive_subscriber", "", email,
                               fault, "", r.ret, r.raised, <<>>, "", r.mail)

\* manage.py cleanupregistration
Sweep ==
    LET r == delete_expired_subscribers(DB, now,
                                        settings.MAILINGLIST_ACTIVATION_DAYS)
    IN  /\ subscribers' = r.subscribers
        /\ profiles' = r.profiles
        /\ UNCHANGED <<now, settings, urlconf, inflight, drawn>>
        /\ last' = Other("sweep", 0)

\* a day passes
Tick ==
    /\ now < MaxTime
    /\ now' = now + 1
    /\ UNCHANGED <<subscribers, profiles, settings, urlconf, inflight,
                   drawn>>
    /\ last' = Other("tick", 0)

\* an administrator unselects is_active on a Subscriber
AdminDeactivate(sid) ==
    /\ \E s \in subscribers :
          /\ s.id = sid
          /\ s.is_active
          /\ subscribers' = save(subscribers, [s EXCEPT !.is_active = FALSE])
    /\ UNCHANGED <<profiles, now, settings, urlconf, inflight, drawn>>
    /\ last' = Other("admin_deactivate", sid)

\* an administrator deletes a RegistrationProfile
AdminDeleteProfile(pid) ==
    /\ \E p \in profiles : p.id = pid
    /\ profiles' = delete_profile(DB, pid).profiles
    /\ UNCHANGED <<subscribers, now, settings, urlconf, inflight, drawn>>
    /\ last' = Other("admin_delete_profile", pid)

\* the site sets MAILINGLIST_REGISTRATION_OPEN
SetRegistrationOpen(v) ==
    /\ v # settings.MAILINGLIST_REGISTRATION_OPEN
    /\ settings' = [settings EXCEPT !.MAILINGLIST_REGISTRATION_OPEN = v]
    /\ UNCHANGED <<subscribers, profiles, now, urlconf, inflight, drawn>>
    /\ last' = Other("set_open", 0)

\* The site of the default backend, registration open
NextDefault ==
    \/ Signup("GET", <<>>)
    \/ \E value \in EmailInputs : Signup("POST", value)
    \/ \E key \in KeyInputs : Confirm(key)
    \/ \E key \in KeyInputs : Deregister(key)
    \/ \E email \in ManagerInputs : CreateProfile(email)
    \/ \E email \in ManagerInputs, send_email \in BOOLEAN :
          CreateInactiveSubscriber(email, send_email)
    \/ Sweep
    \/ Tick
    \/ \E s \in subscribers : AdminDeactivate(s.id)
    \/ \E p \in profiles : AdminDeleteProfile(p.id)
    \/ \E queryset \in SUBSET profiles : AdminActivate(queryset)

SpecDefault == InitDefault /\ [][NextDefault]_vars

\* The site of the simple backend, registration open: its URLconf has no
\* confirm pattern
NextSimple ==
    \/ Signup("GET", <<>>)
    \/ \E value \in EmailInputs : Signup("POST", value)
    \/ \E key \in KeyInputs : Deregister(key)
    \/ \E email \in ManagerInputs : CreateProfile(email)
    \/ \E email \in ManagerInputs, send_email \in BOOLEAN :
          CreateInactiveSubscriber(email, send_email)
    \/ Sweep
    \/ Tick
    \/ \E s \in subscribers : AdminDeactivate(s.id)
    \/ \E p \in profiles : AdminDeleteProfile(p.id)
    \/ \E queryset \in SUBSET profiles : AdminActivate(queryset)

SpecSimple == InitSimple /\ [][NextSimple]_vars

\* The site of the messages backend
NextMessages ==
    \/ Signup("GET", <<>>)
    \/ \E value \in EmailInputs : Signup("POST", value)
    \/ \E key \in KeyInputs : Confirm(key)
    \/ \E key \in KeyInputs : Unsubscribe(key)
    \/ \E email \in ManagerInputs : CreateProfile(email)
    \/ \E email \in ManagerInputs, send_email \in BOOLEAN :
          CreateInactiveSubscriber(email, send_email)
    \/ Sweep
    \/ Tick
    \/ \E s \in subscribers : AdminDeactivate(s.id)
    \/ \E p \in profiles : AdminDeleteProfile(p.id)
    \/ \E queryset \in SUBSET profiles : AdminActivate(queryset)

SpecMessages == InitMessages /\ [][NextMessages]_vars

\* A site of any of the three backends that closes and opens registration
\* while it runs: the requests of visitors, the site's own enrolments, the
\* sweep and the clock
NextSettings ==
    \/ Signup("GET", <<>>)
    \/ \E value \in EmailInputs : Signup("POST", value)
    \/ \E key \in KeyInputs : Confirm(key)
    \/ \E key \in KeyInputs : Unsubscribe(key)
    \/ \E key \in KeyInputs : Deregister(key)
    \/ \E email \in ManagerInputs : CreateProfile(email)
    \/ \E email \in ManagerInputs, send_email \in BOOLEAN :
          CreateInactiveSubscriber(email, send_email)
    \/ Sweep
    \/ Tick
    \/ \E v \in OpenValues : SetRegistrationOpen(v)

SpecSettings == Init /\ [][NextSettings]_vars


\* ------------------------------------------------- concurrent requests
\* The site serves requests in several workers.  A request takes several
\* steps on the database, and steps of other requests may come between
\* them: a signup validates the form (clean_email queries the Subscribers)
\* and then creates the Subscriber; an activation reads the profile and
\* tests its key, then saves the Subscriber, then saves the profile, each
\* save a commit of its own.  Nothing in the code locks a row or declares
\* the email unique.

\* a request of the concurrent site.  pc: "validated" (signup, form valid),
\* "read" (activation, rows read), "saved" (activation, Subscriber
\* saved), "done"; read: the rows an activation
\* holds in memory; ret, raised, events, response as in Request
InFlight(id, op, pc, arg, read, ret, raised, events, response) ==
    [id |-> id, op |-> op, pc |-> pc, arg |-> arg, read |-> read,
     ret |-> ret, raised |-> raised, events |-> events,
     response |-> response]

\* keys presented to the concurrent site: those the profiles hold and the
\* digest of "foo"
ConcurrentKeys ==
    {p.activation_key : p \in profiles} \cup {hexdigest(<<"foo">>)}

\* RegistrationView.dispatch and _RequestPassingFormView.post up to
\* form.is_valid(): the first step of a POST of the signup page
SignupValidate(value) ==
    LET id == NextId(inflight)
        open == settings.MAILINGLIST_REGISTRATION_OPEN
        done(response) ==
            InFlight(id, "signup", "done", value, <<>>, 0, "", <<>>, response)
    IN  /\ Cardinality(inflight) < MaxRequests
        /\ inflight' = inflight \cup
              {IF ~registration_allowed(urlconf, open)
               THEN done("redirect:mailinglist_registration_disallowed")
               ELSE IF ~form_is_valid(subscribers, value)
               THEN done("render:form_errors")
               ELSE InFlight(id, "signup", "validated", value, <<>>, 0, "",
                             <<>>, "")}
        /\ UNCHANGED <<subscribers, profiles, now, settings, urlconf, last,
                       drawn>>

\* RegistrationView.form_valid: the second step of a POST of the signup
\* page, register with the cleaned email
SignupCreate(id) ==
    \E req \in inflight,
       salt \in IF urlconf = "simple" THEN {SaltName[1]} ELSE Salts(drawn) :
        LET r == register(urlconf, DB, NextId(subscribers), NextId(profiles),
                          EmailField_clean(req.arg), salt, now,
                          settings.MAILINGLIST_ACTIVATION_DAYS, "none")
        IN  /\ req.id = id
            /\ req.op = "signup"
            /\ req.pc = "validated"
            /\ urlconf # "simple" => drawn < MaxSalts
            /\ subscribers' = r.subscribers
            /\ profiles' = r.profiles
            /\ drawn' = IF urlconf = "simple" THEN drawn
                        ELSE Drawn(drawn, salt)
            /\ inflight' = (inflight \ {req}) \cup
                  {InFlight(id, "signup", "done", req.arg, <<>>, r.ret,
                            r.raised, r.events,
                            "redirect:" \o registration_success_url(urlconf))}
            /\ UNCHANGED <<now, settings, urlconf, last>>

\* ActivationView.get entering activate_subscriber: the first step of a
\* GET of confirm/<activation_key>; a key that cannot be activated ends
\* the request here
ConfirmRead(activation_key) ==
    LET id == NextId(inflight)
        r == activate_read(DB, activation_key, now,
                           settings.MAILINGLIST_ACTIVATION_DAYS)
    IN  /\ urlconf \in {"default", "messages"}
        /\ Cardinality(inflight) < MaxRequests
        /\ inflight' = inflight \cup
              {IF r.raised # ""
               THEN InFlight(id, "confirm", "done", activation_key, <<>>, 0,
                             r.raised, <<>>, "error")
               ELSE IF r.read = <<>>
               THEN InFlight(id, "confirm", "done", activation_key, <<>>, 0,
                             "", <<>>, activation_response(urlconf, 0))
               ELSE InFlight(id, "confirm", "read", activation_key, r.read,
                             0, "", <<>>, "")}
        /\ UNCHANGED <<subscribers, profiles, now, settings, urlconf, last,
                       drawn>>

\* activate_subscriber, subscriber.save(): the second step of a GET of
\* confirm/<activation_key>
ConfirmSaveSubscriber(id) ==
    \E req \in inflight :
        LET db1 == activate_save_subscriber(DB, req.read[1], req.read[2])
        IN  /\ req.id = id
            /\ req.op = "confirm"
            /\ req.pc = "read"
            /\ subscribers' = db1.subscribers
            /\ inflight' = (inflight \ {req}) \cup
                               {[req EXCEPT !.pc = "saved"]}
            /\ UNCHANGED <<profiles, now, settings, urlconf, last, drawn>>

\* activate_subscriber, profile.save(), and the rest of ActivationView.get:
\* the third step of a GET of confirm/<activation_key>
ConfirmSaveProfile(id) ==
    \E req \in inflight :
        LET subscriber == req.read[2]
            db1 == activate_save_profile(DB, req.read[1])
            sent == <<Event("subscriber_activated", urlconf, subscriber.id,
                            <<>>)>>
        IN  /\ req.id = id
            /\ req.op = "confirm"
            /\ req.pc = "saved"
            /\ profiles' = db1.profiles
            /\ inflight' = (inflight \ {req}) \cup
                  {InFlight(id, "confirm", "done", req.arg, <<>>,
                            subscriber.id, "",
                            IF urlconf = "default" THEN sent \o sent
                            ELSE sent,
                            activation_response(urlconf, subscriber.id))}
            /\ UNCHANGED <<subscribers, now, settings, urlconf, last, drawn>>

NextC ==
    \/ \E value \in EmailInputs : SignupValidate(value)
    \/ \E id \in 1..MaxRequests : SignupCreate(id)
    \/ \E key \in ConcurrentKeys : ConfirmRead(key)
    \/ \E id \in 1..MaxRequests : ConfirmSaveSubscriber(id)
    \/ \E id \in 1..MaxRequests : ConfirmSaveProfile(id)

SpecC == Init /\ [][NextC]_vars


\* ------------------------------------------------------------ properties
\* The formulas below read `last`: the request just served, the tables
\* before it (last.pre) and the tables after it (subscribers, profiles).

window == settings.MAILINGLIST_ACTIVATION_DAYS

SignupPost == last.op = "signup" /\ last.method = "POST"

TurnedAway == last.response = "redirect:mailinglist_registration_disallowed"

TablesUnchanged ==
    /\ subscribers = last.pre.subscribers
    /\ profiles = last.pre.profiles

\* e is well formed and no Subscriber held it, ignoring case, before the
\* request
Fresh(e) ==
    /\ EmailField_valid(e)
    /\ \A s \in last.pre.subscribers : lower(s.email) # lower(strip(e))

\* e is malformed, or some Subscriber held it, ignoring case, before the
\* request
Taken(e) ==
    \/ ~EmailField_valid(e)
    \/ \E s \in last.pre.subscribers : lower(s.email) = lower(strip(e))

DoubleOptIn == urlconf \in {"default", "messages"}

\* the request added exactly one inactive Subscriber and exactly one
\* profile bound to it with a 40-hex key, and sent exactly one activation
\* email, to address `to`
RegisteredOne(to) ==
    \E s \in subscribers \ last.pre.subscribers :
    \E p \in profiles \ last.pre.profiles :
        /\ subscribers = last.pre.subscribers \cup {s}
        /\ profiles = last.pre.profiles \cup {p}
        /\ \A t \in last.pre.subscribers : t.id # s.id
        /\ ~s.is_active
        /\ p.subscriber = s.id
        /\ SHA1_RE(p.activation_key)
        /\ Len(last.mail) = 1
        /\ last.mail[1].to = to
        /\ last.mail[1].activation_key = p.activation_key

RegistrationRan ==
    /\ SignupPost
    /\ DoubleOptIn
    /\ ~TurnedAway
    /\ Fresh(last.arg)

\* C1 as amended: in the double opt-in workflow, register(e) with a well
\* formed email e that no Subscriber holds adds exactly one inactive
\* Subscriber and exactly one RegistrationProfile bound to it with a 40-hex
\* activation key, creates nothing else, and sends exactly one activation
\* email, addressed to e with its domain part lowercased.
C1_Theorem ==
    (RegistrationRan /\ last.fault = "none")
        => RegisteredOne(normalize_email(strip(last.arg)))

\* C1 as stated: the one activation email is addressed to e itself.
C1_Original ==
    (RegistrationRan /\ last.fault = "none") => RegisteredOne(strip(last.arg))

\* C1 witness: a signup of the default backend went through for an address
\* written with an uppercase domain.
C1_Witness ==
    /\ RegistrationRan
    /\ urlconf = "default"
    /\ last.fault = "none"
    /\ last.response = "redirect:mailinglist_registration_complete"
    /\ last.arg = <<"Bob", "@", "EXAMPLE.COM">>

\* C2: a signup POST whose email is malformed, or equals ignoring case the
\* email of an existing Subscriber (active or not), leaves the Subscribers
\* and the RegistrationProfiles as they were and sends no mail; unless the
\* request was turned away because signups are closed, the response is the
\* form with its validation errors.
C2_Theorem ==
    (SignupPost /\ Taken(last.arg))
        => /\ TablesUnchanged
           /\ last.mail = <<>>
           /\ last.events = <<>>
           /\ TurnedAway \/ last.response = "render:form_errors"

\* C2 witness: a POST repeated an existing address in another case and was
\* answered with the form's errors.
C2_Witness ==
    /\ SignupPost
    /\ last.response = "render:form_errors"
    /\ EmailField_valid(last.arg)
    /\ \E s \in last.pre.subscribers :
          /\ lower(s.email) = lower(strip(last.arg))
          /\ s.email # strip(last.arg)

ConfirmGet == last.op = "confirm"

\* the profile that held key k before the request, with its Subscriber
PendingPair(k, p, s) ==
    /\ p \in last.pre.profiles
    /\ s \in last.pre.subscribers
    /\ p.activation_key = k
    /\ p.subscriber = s.id

\* C3: activate(k) for the key k of a profile whose Subscriber is strictly
\* inside the activation window returns that Subscriber, now with
\* is_active = true; once a Subscriber holds k as the key it was activated
\* with, activate(k) returns failure and changes nothing.
C3_Claim ==
    /\ \A p \in last.pre.profiles, s \in last.pre.subscribers :
          (/\ ConfirmGet
           /\ SHA1_RE(last.arg)
           /\ PendingPair(last.arg, p, s)
           /\ now < s.date_joined + window)
              => /\ last.ret = s.id
                 /\ \E t \in subscribers : t.id = s.id /\ t.is_active
    /\ (/\ ConfirmGet
        /\ \E s \in last.pre.subscribers : s.deactivation_key = last.arg)
          => /\ last.ret = 0
             /\ last.raised = ""
             /\ TablesUnchanged

\* C4: activate(k) for the key k of a profile whose Subscriber has
\* now >= date_joined + MAILINGLIST_ACTIVATION_DAYS, equality included,
\* returns failure and changes nothing; a Subscriber that signed up and is
\* waiting for its activation stays inactive with no deactivation key and
\* the profile keeps its key.
C4_Claim ==
    \A p \in last.pre.profiles, s \in last.pre.subscribers :
        (/\ ConfirmGet
         /\ SHA1_RE(last.arg)
         /\ PendingPair(last.arg, p, s)
         /\ now >= s.date_joined + window)
            => /\ last.ret = 0
               /\ last.raised = ""
               /\ TablesUnchanged
               /\ s \in subscribers
               /\ ~s.is_active => s.deactivation_key = <<>>
               /\ p \in profiles
               /\ p.activation_key # ACTIVATED

\* C5: a successful activate(k) leaves the Subscriber that owns the profile
\* of key k with is_active = true and deactivation_key = k, and leaves that
\* profile with the sentinel ALREADY_ACTIVATED as its activation_key.
C5_Theorem ==
    (ConfirmGet /\ last.ret # 0)
        => \E p \in last.pre.profiles :
              /\ p.activation_key = last.arg
              /\ p.subscriber = last.ret
              /\ \E t \in subscribers :
                    /\ t.id = last.ret
                    /\ t.is_active
                    /\ t.deactivation_key = last.arg
              /\ \E q \in profiles :
                    /\ q.id = p.id
                    /\ q.subscriber = p.subscriber
                    /\ q.activation_key = ACTIVATED

\* C5 witness: an activation succeeded.
C5_Witness ==
    /\ ConfirmGet
    /\ last.ret # 0
    /\ last.pre.subscribers # subscribers

SweepRan == last.op = "sweep"

Deleted(s) == \A t \in subscribers : t.id # s.id

\* C6 as amended: delete_expired_subscribers() deletes a Subscriber only if
\* it is inactive and has a profile whose key is expired in the sense of
\* activation_key_expired: the window has passed, or the key was consumed
\* by an activation (the sentinel).  Every active Subscriber, and every
\* inactive one inside its window whose key is not consumed, survives
\* unchanged.
C6_Theorem ==
    SweepRan =>
        /\ subscribers \subseteq last.pre.subscribers
        /\ \A s \in last.pre.subscribers :
              Deleted(s) =>
                  /\ ~s.is_active
                  /\ \E p \in last.pre.profiles :
                        /\ p.subscriber = s.id
                        /\ \/ p.activation_key = ACTIVATED
                           \/ s.date_joined + window <= now

\* C6 as stated: the sweep deletes a Subscriber only if it is inactive and
\* date_joined + window <= now.
C6_Original ==
    SweepRan =>
        \A s \in last.pre.subscribers :
            Deleted(s) => (~s.is_active /\ s.date_joined + window <= now)

\* C6 witness: the sweep deleted a Subscriber that had been activated and
\* then switched off, while another Subscriber survived.
C6_Witness ==
    /\ SweepRan
    /\ subscribers # {}
    /\ \E s \in last.pre.subscribers :
          /\ Deleted(s)
          /\ s.deactivation_key # <<>>

UnsubscribeGet == last.op = "unsubscribe"

\* the request was served by views.DeRegistrationView
DeregisterGet == last.op = "deregister"

\* C7: deactivate(k) with the key k that a Subscriber was activated with,
\* its profile still in place, succeeds and removes exactly that Subscriber
\* and its profile, after which no Subscriber holds k; deactivate(k) for a
\* key no Subscriber holds returns failure and changes nothing; and a
\* successful activate(k) leaves the Subscriber holding k with its profile.
\* The rows are gone when deactivate returns, also when a receiver of
\* subscriber_deactivated raises afterwards.
C7_Claim ==
    /\ \A s \in last.pre.subscribers :
          (/\ UnsubscribeGet
           /\ SHA1_RE(last.arg)
           /\ s.deactivation_key = last.arg
           /\ \E p \in last.pre.profiles : p.subscriber = s.id)
              => /\ last.ret = 1
                 /\ last.fault = "none" => last.raised = ""
                 /\ subscribers = last.pre.subscribers \ {s}
                 /\ profiles =
                      {p \in last.pre.profiles : p.subscriber # s.id}
                 /\ \A t \in subscribers : t.deactivation_key # last.arg
    /\ (/\ UnsubscribeGet
        /\ \A s \in last.pre.subscribers : s.deactivation_key # last.arg)
          => /\ last.ret = 0
             /\ last.raised = ""
             /\ TablesUnchanged
    /\ (ConfirmGet /\ last.ret # 0)
          => \E s \in subscribers :
                /\ s.id = last.ret
                /\ s.deactivation_key = last.arg
                /\ \E p \in profiles : p.subscriber = s.id

\* C8: create_inactive_subscriber is all or nothing: when creating the
\* profile or sending the activation email fails, the call raises and the
\* tables hold neither the new Subscriber nor a new profile; when it
\* returns, both are in the tables and the email was sent.
C8_Theorem ==
    (RegistrationRan /\ last.fault \in Faults) =>
        IF last.fault # "none"
        THEN /\ last.raised # ""
             /\ last.response = "error"
             /\ TablesUnchanged
             /\ last.mail = <<>>
        ELSE /\ last.raised = ""
             /\ \E s \in subscribers \ last.pre.subscribers :
                   /\ s.id = last.ret
                   /\ \E p \in profiles \ last.pre.profiles :
                         p.subscriber = s.id
             /\ Len(last.mail) = 1

\* C8 witness: sending the activation email failed during a signup.
C8_Witness ==
    /\ RegistrationRan
    /\ last.fault = "mail"
    /\ last.raised = "SMTPException"

SignupClosed ==
    /\ last.op = "signup"
    /\ settings.MAILINGLIST_REGISTRATION_OPEN = "False"

ClosedOutcome ==
    /\ TurnedAway
    /\ TablesUnchanged
    /\ last.mail = <<>>
    /\ last.events = <<>>

\* C9 as amended: in the default and the simple backend, while
\* MAILINGLIST_REGISTRATION_OPEN is False every GET or POST of the signup
\* page redirects to the registration-closed page and creates and sends
\* nothing; the messages backend does not read the setting and never
\* redirects to the registration-closed page.
C9_Theorem ==
    /\ (SignupClosed /\ urlconf \in {"default", "simple"}) => ClosedOutcome
    /\ (last.op = "signup" /\ urlconf = "messages") => ~TurnedAway

\* C9 as stated: in each of the three backends a signup request made while
\* MAILINGLIST_REGISTRATION_OPEN is False is redirected to the
\* registration-closed page and creates and sends nothing.
C9_Original == SignupClosed => ClosedOutcome

\* C9 witness: a POST with a new, well formed address was turned away by
\* the default backend.
C9_Witness ==
    /\ SignupClosed
    /\ SignupPost
    /\ urlconf = "default"
    /\ Fresh(last.arg)
    /\ TurnedAway

\* C10: deactivate(k) for the deactivation key k of a Subscriber that has
\* no RegistrationProfile deletes the Subscriber and reports success.
C10_Claim ==
    \A s \in last.pre.subscribers :
        (/\ UnsubscribeGet
         /\ SHA1_RE(last.arg)
         /\ s.deactivation_key = last.arg
         /\ \A p \in last.pre.profiles : p.subscriber # s.id)
            => /\ last.ret = 1
               /\ last.raised = ""
               /\ Deleted(s)

\* C11: whatever key is presented and whatever the tables hold, a GET of
\* confirm/<key> or of unsubscribe/<key> whose signal receivers return
\* ends in a redirect or a rendered page; no exception escapes activate,
\* deactivate or their handlers.
C11_Claim ==
    ((ConfirmGet \/ UnsubscribeGet \/ DeregisterGet) /\ last.fault = "none")
        => /\ last.raised = ""
           /\ last.response # "error"

\* the key is not a SHA1 hexdigest: it is empty or starts with something
\* other than digest characters
NotHex(k) == k = <<>> \/ k[1] # "sha1:"

\* C12: activate(k) and deactivate(k) with a key k that is not 40 lowercase
\* hex characters, the sentinel ALREADY_ACTIVATED included even while a
\* profile holds it, return failure, ask the database for nothing and leave
\* every Subscriber and RegistrationProfile as it was.
C12_Theorem ==
    ((ConfirmGet \/ UnsubscribeGet) /\ NotHex(last.arg))
        => /\ last.ret = 0
           /\ last.raised = ""
           /\ last.lookups = <<>>
           /\ last.events = <<>>
           /\ TablesUnchanged

\* C12 witness: the sentinel was presented as an activation key while a
\* profile held the sentinel.
C12_Witness ==
    /\ ConfirmGet
    /\ last.arg = ACTIVATED
    /\ last.ret = 0
    /\ \E p \in last.pre.profiles : p.activation_key = ACTIVATED

\* C13: a RegistrationProfile whose activation_key is the sentinel
\* ALREADY_ACTIVATED is, after any signup, activation, unsubscription or
\* sweep, either still there with the sentinel as its key or deleted; and
\* no activation returns its Subscriber.
C13_Theorem ==
    \A p \in last.pre.profiles :
        p.activation_key = ACTIVATED
            => /\ \A q \in profiles : q.id = p.id => q = p
               /\ ConfirmGet => last.ret # p.subscriber

\* C13 witness: inside the window, the key that had activated a Subscriber
\* was presented again after an administrator had switched the Subscriber
\* off; its profile held the sentinel before and after.
C13_Witness ==
    /\ ConfirmGet
    /\ \E p \in last.pre.profiles \cap profiles :
       \E s \in last.pre.subscribers :
          /\ p.activation_key = ACTIVATED
          /\ p.subscriber = s.id
          /\ s.deactivation_key = last.arg
          /\ ~s.is_active
          /\ now < s.date_joined + window

\* C14: in the messages backend a successful unsubscribe sends exactly one
\* subscriber_deactivated signal whose email argument is the address of the
\* Subscriber that was removed; an unsubscribe that fails sends none.
C14_Claim ==
    UnsubscribeGet =>
        IF last.ret = 1
        THEN /\ Len(last.events) = 1
             /\ last.events[1].signal = "subscriber_deactivated"
             /\ \E s \in last.pre.subscribers \ subscribers :
                   last.events[1].email = s.email
        ELSE last.events = <<>>

\* C15: activate_subscriber with the key of a profile whose Subscriber is
\* already active returns False and changes neither the Subscriber nor the
\* profile.
C15_Claim ==
    \A p \in last.pre.profiles, s \in last.pre.subscribers :
        (/\ ConfirmGet
         /\ PendingPair(last.arg, p, s)
         /\ s.is_active)
            => /\ last.ret = 0
               /\ TablesUnchanged

\* what a failed activation shows: False from activate_subscriber, no
\* signal, nothing written, and the failure page (default backend) or the
\* redirect with the error flash message (messages backend)
ActivationFailed ==
    /\ last.ret = 0
    /\ last.raised = ""
    /\ last.events = <<>>
    /\ TablesUnchanged
    /\ last.response = IF urlconf = "default"
                       THEN "render:mailinglist/activate.html"
                       ELSE "redirect:/"
    /\ last.flash = IF urlconf = "default" THEN "" ELSE "error"

\* no profile holds k and no Subscriber was activated with it
KeyUnknown(k) ==
    /\ \A p \in last.pre.profiles : p.activation_key # k
    /\ \A s \in last.pre.subscribers : s.deactivation_key # k

\* k is the key of a profile whose window has closed
KeyExpired(k) ==
    \E p \in last.pre.profiles, s \in last.pre.subscribers :
        PendingPair(k, p, s) /\ now >= s.date_joined + window

\* k activated a Subscriber whose profile now holds the sentinel, and no
\* profile holds k
KeyConsumed(k) ==
    /\ \A p \in last.pre.profiles : p.activation_key # k
    /\ \E p \in last.pre.profiles, s \in last.pre.subscribers :
          /\ p.subscriber = s.id
          /\ p.activation_key = ACTIVATED
          /\ s.deactivation_key = k

\* C16: an activation request with a well formed key that matches no
\* profile, with a key whose window has closed and with a key already
\* consumed ends the same way: activate_subscriber returns False and the
\* handler gives the one failure response of its backend, which depends on
\* neither the case nor the tables.
C16_Claim ==
    (/\ ConfirmGet
     /\ SHA1_RE(last.arg)
     /\ KeyUnknown(last.arg) \/ KeyExpired(last.arg) \/ KeyConsumed(last.arg))
        => ActivationFailed

\* C17: in the simple backend a signup with a well formed address that no
\* Subscriber holds, and whose signal receivers return, adds exactly one Subscriber, active at once, adds no
\* RegistrationProfile, sends no mail and sends one subscriber_registered
\* signal that carries the new Subscriber.
C17_Theorem ==
    (/\ SignupPost
     /\ urlconf = "simple"
     /\ ~TurnedAway
     /\ Fresh(last.arg)
     /\ last.fault = "none")
        => /\ \E s \in subscribers \ last.pre.subscribers :
                 /\ subscribers = last.pre.subscribers \cup {s}
                 /\ \A t \in last.pre.subscribers : t.id # s.id
                 /\ s.is_active
                 /\ s.email = normalize_email(strip(last.arg))
                 /\ s.date_joined = now
                 /\ \A p \in profiles : p.subscriber # s.id
                 /\ last.ret = s.id
                 /\ Len(last.events) = 1
                 /\ last.events[1].signal = "subscriber_registered"
                 /\ last.events[1].subscriber = s.id
           /\ profiles = last.pre.profiles
           /\ last.mail = <<>>
           /\ last.response = "redirect:mailinglist_registration_confirmed"

\* C17 witness: the simple backend signed up a second address.
C17_Witness ==
    /\ SignupPost
    /\ urlconf = "simple"
    /\ last.ret # 0
    /\ last.pre.subscribers # {}
    /\ Cardinality(subscribers) = Cardinality(last.pre.subscribers) + 1

\* C18: in the default backend a GET of confirm/<key> whose signal
\* receivers return redirects to the
\* activation-complete page exactly when activate_subscriber returned the
\* Subscriber, which then is active and holds the key; otherwise it renders
\* mailinglist/activate.html and no Subscriber or RegistrationProfile has
\* changed.
C18_Claim ==
    (ConfirmGet /\ urlconf = "default" /\ last.fault = "none")
        => IF last.ret # 0
           THEN /\ last.response =
                     "redirect:mailinglist_registration_activation_complete"
                /\ \E s \in subscribers :
                      /\ s.id = last.ret
                      /\ s.is_active
                      /\ s.deactivation_key = last.arg
           ELSE /\ last.response = "render:mailinglist/activate.html"
                /\ TablesUnchanged

\* the signup with e passed validation and created a new inactive
\* Subscriber, joined now, with a new RegistrationProfile whose 40-hex key
\* was mailed and activates that Subscriber on every day of the new window
Readmitted ==
    /\ last.response = "redirect:" \o registration_success_url(urlconf)
    /\ \E s \in subscribers \ last.pre.subscribers :
       \E p \in profiles \ last.pre.profiles :
          /\ s.id = last.ret
          /\ lower(s.email) = lower(strip(last.arg))
          /\ ~s.is_active
          /\ s.date_joined = now
          /\ p.subscriber = s.id
          /\ SHA1_RE(p.activation_key)
          /\ Len(last.mail) = 1
          /\ last.mail[1].activation_key = p.activation_key
          /\ \A t \in now..(now + window - 1) :
                activate_subscriber(DB, p.activation_key, t,
                                    window).ret = s.id

\* C19 as amended: once delete_expired_subscribers() has removed an
\* expired, never activated Subscriber with email e, and no other
\* Subscriber holds e, a signup with e in the double opt-in workflow passes
\* validation and creates a new inactive Subscriber with a new
\* RegistrationProfile whose key is mailed and can be activated within the
\* new window.
C19_Theorem ==
    (/\ SignupPost
     /\ last.readmitted
     /\ DoubleOptIn
     /\ ~TurnedAway
     /\ Fresh(last.arg)
     /\ last.fault = "none")
        => Readmitted

\* C19 as stated: once the sweep has removed an expired, never activated
\* Subscriber with email e, a signup with e passes validation and is
\* issued a new profile and key, whatever else the Subscriber table holds.
C19_Original ==
    (/\ SignupPost
     /\ last.readmitted
     /\ DoubleOptIn
     /\ ~TurnedAway
     /\ last.fault = "none")
        => Readmitted

\* C19 witness: an address was signed up again right after the sweep had
\* removed its expired Subscriber, and a new key was mailed.
C19_Witness ==
    /\ SignupPost
    /\ last.readmitted
    /\ last.ret # 0
    /\ now > 0
    /\ Len(last.mail) = 1
    /\ SHA1_RE(last.mail[1].activation_key)

\* C20: delete_expired_subscribers() keeps every Subscriber that has no
\* RegistrationProfile, active or not, however long ago it joined.
C20_Theorem ==
    SweepRan =>
        \A s \in last.pre.subscribers :
            (\A p \in last.pre.profiles : p.subscriber # s.id)
                => s \in subscribers

\* C20 witness: the sweep ran over an inactive Subscriber without a profile
\* whose window had closed, and kept it.
C20_Witness ==
    /\ SweepRan
    /\ \E s \in last.pre.subscribers \cap subscribers :
          /\ ~s.is_active
          /\ s.date_joined + window <= now
          /\ \A p \in last.pre.profiles : p.subscriber # s.id

\* C21: in the default and the messages backend a signup sends
\* subscriber_registered only when the Subscriber and its
\* RegistrationProfile are in the tables and the activation email has been
\* handed to the mail transport; the signal is sent once and carries the new
\* Subscriber; a signup that fails validation or whose creation raises
\* sends none.
C21_Theorem ==
    (SignupPost /\ DoubleOptIn)
        => /\ last.events # <<>>
                => /\ Len(last.events) = 1
                   /\ last.events[1].signal = "subscriber_registered"
                   /\ last.events[1].subscriber = last.ret
                   /\ \E s \in subscribers \ last.pre.subscribers :
                      \E p \in profiles \ last.pre.profiles :
                         /\ s.id = last.ret
                         /\ p.subscriber = s.id
                         /\ Len(last.mail) = 1
                         /\ last.mail[1].to = s.email
                         /\ last.mail[1].activation_key = p.activation_key
           /\ (\/ last.response = "render:form_errors"
               \/ last.fault \in {"profile", "mail"})
                => last.events = <<>>
           /\ (last.response = "redirect:" \o registration_success_url(urlconf))
                => Len(last.events) = 1

\* C21 witness: creating the profile failed during a signup of the messages
\* backend, and no signal was sent.
C21_Witness ==
    /\ SignupPost
    /\ urlconf = "messages"
    /\ last.fault = "profile"
    /\ last.raised = "DatabaseError"
    /\ last.events = <<>>

\* C22: every RegistrationProfile references exactly one Subscriber that
\* is in the table, and no Subscriber is referenced by two profiles; no
\* signup, activation, unsubscription or sweep leaves a profile behind whose
\* Subscriber is gone.
C22_Theorem ==
    /\ \A p \in profiles :
          Cardinality({s \in subscribers : s.id = p.subscriber}) = 1
    /\ \A p, q \in profiles : p.subscriber = q.subscriber => p = q
    /\ \A p, q \in profiles : p.id = q.id => p = q

\* C22 witness: the sweep deleted a Subscriber with its profile while
\* another Subscriber kept its own.
C22_Witness ==
    /\ SweepRan
    /\ profiles # {}
    /\ \E s \in last.pre.subscribers :
          /\ Deleted(s)
          /\ \E p \in last.pre.profiles : p.subscriber = s.id
          /\ \A p \in profiles : p.subscriber # s.id

\* C23: while signup requests run concurrently, each validating the email
\* and then creating the Subscriber, no two Subscribers hold emails that
\* are equal ignoring case.
C23_Claim ==
    \A s, t \in subscribers :
        s.id # t.id => lower(s.email) # lower(t.email)

\* the activation requests that ended in success for key k
Activations(k) ==
    {r \in inflight : /\ r.op = "confirm"
                      /\ r.pc = "done"
                      /\ r.arg = k
                      /\ r.ret # 0}

\* C24: of the activation requests for one key k that run concurrently, at
\* most one returns success, and at most one of them sends
\* subscriber_activated.
C24_Claim ==
    \A r \in inflight :
        /\ Cardinality(Activations(r.arg)) <= 1
        /\ Cardinality({a \in Activations(r.arg) : a.events # <<>>}) <= 1

\* C25: in the default backend a GET of confirm/<key> whose activation
\* succeeds sends subscriber_activated exactly once, and one whose
\* activation fails does not send it.
C25_Claim ==
    (ConfirmGet /\ urlconf = "default" /\ last.fault = "none")
        => IF last.ret # 0
           THEN Len(last.events) = 1
           ELSE last.events = <<>>

\* C26: a Subscriber holds a deactivation key only from the activation that
\* succeeded on its own profile (in a confirm request or in the
\* administrator's activate_subscribers), and the key is that profile's
\* 40-hex key; so deactivate(k), whatever k, deletes no Subscriber that has
\* not been activated: neither one waiting for activation nor one signed up
\* by the simple backend.
C26_Theorem ==
    /\ \A s \in subscribers :
          s.deactivation_key # <<>>
              => /\ SHA1_RE(s.deactivation_key)
                 /\ \/ \E t \in last.pre.subscribers :
                          /\ t.id = s.id
                          /\ t.deactivation_key = s.deactivation_key
                    \/ /\ ConfirmGet
                       /\ last.ret = s.id
                       /\ last.arg = s.deactivation_key
                       /\ \E p \in last.pre.profiles :
                             /\ p.subscriber = s.id
                             /\ p.activation_key = s.deactivation_key
                    \/ /\ last.op = "admin_activate"
                       /\ \E p \in last.pre.profiles :
                             /\ p.subscriber = s.id
                             /\ p.activation_key = s.deactivation_key
    /\ (UnsubscribeGet \/ DeregisterGet)
          => \A s \in last.pre.subscribers :
                s.deactivation_key = <<>> => s \in subscribers

\* C26 witness: the activation key of a Subscriber still waiting for its
\* activation was presented to unsubscribe, and the Subscriber stayed.
C26_Witness ==
    /\ UnsubscribeGet
    /\ last.ret = 0
    /\ \E p \in last.pre.profiles, s \in last.pre.subscribers :
          /\ PendingPair(last.arg, p, s)
          /\ ~s.is_active
          /\ s.deactivation_key = <<>>
          /\ s \in subscribers

\* C27: an active Subscriber is deleted only by deactivate called with its
\* own deactivation key: after any signup, activation (by a visitor or by
\* the administrator), sweep or unsubscribe with another key it is still in
\* the table and still active.
C27_Theorem ==
    (last.op \in {"signup", "confirm", "admin_activate", "unsubscribe",
                  "deregister", "sweep"})
        => \A s \in last.pre.subscribers :
              s.is_active
                  => IF Deleted(s)
                     THEN /\ UnsubscribeGet \/ DeregisterGet
                          /\ last.ret = 1
                          /\ SHA1_RE(last.arg)
                          /\ s.deactivation_key = last.arg
                     ELSE \E t \in subscribers :
                             /\ t.id = s.id
                             /\ t.email = s.email
                             /\ t.is_active

\* C27 witness: an unsubscribe removed one activated Subscriber and left
\* another, whose key is a different one, active in the table.
C27_Witness ==
    /\ UnsubscribeGet
    /\ last.ret = 1
    /\ \E s \in last.pre.subscribers \cap subscribers :
          /\ s.is_active
          /\ SHA1_RE(s.deactivation_key)
          /\ s.deactivation_key # last.arg

\* the Subscriber and the profile that own the key of the request
OwnsKey(s) ==
    IF ConfirmGet
    THEN \E p \in last.pre.profiles :
            p.activation_key = last.arg /\ p.subscriber = s.id
    ELSE s.deactivation_key = last.arg

OwnedBy(p) ==
    \E s \in last.pre.subscribers : OwnsKey(s) /\ p.subscriber = s.id

\* C28: activate(k) and deactivate(k) change or delete only the Subscriber
\* and the RegistrationProfile that own k and add no row; a call that fails
\* changes nothing.
C28_Theorem ==
    (ConfirmGet \/ UnsubscribeGet \/ DeregisterGet)
        => IF last.ret = 0
           THEN TablesUnchanged
           ELSE /\ \A s \in last.pre.subscribers :
                      OwnsKey(s) \/ s \in subscribers
                /\ \A p \in last.pre.profiles :
                      OwnedBy(p) \/ p \in profiles
                /\ \A s \in subscribers \ last.pre.subscribers :
                      \E t \in last.pre.subscribers :
                          t.id = s.id /\ OwnsKey(t)
                /\ \A p \in profiles \ last.pre.profiles :
                      \E q \in last.pre.profiles :
                          q.id = p.id /\ OwnedBy(q)

\* C28 witness: an unsubscribe succeeded while another Subscriber and its
\* profile were in the tables.
C28_Witness ==
    /\ UnsubscribeGet
    /\ last.ret = 1
    /\ subscribers # {}
    /\ profiles # {}
    /\ profiles \subseteq last.pre.profiles

\* C29: while a Subscriber that never activated is past its window and
\* still in the table, activate with its key fails and a signup with its
\* email, in any case, fails validation; neither changes anything.
C29_Theorem ==
    \A s \in last.pre.subscribers, p \in last.pre.profiles :
        (/\ p.subscriber = s.id
         /\ SHA1_RE(p.activation_key)
         /\ ~s.is_active
         /\ s.deactivation_key = <<>>
         /\ now >= s.date_joined + window)
            => /\ (ConfirmGet /\ last.arg = p.activation_key)
                    => /\ last.ret = 0
                       /\ TablesUnchanged
               /\ (/\ SignupPost
                   /\ EmailField_valid(last.arg)
                   /\ lower(strip(last.arg)) = lower(s.email))
                    => /\ TablesUnchanged
                       /\ last.events = <<>>
                       /\ last.mail = <<>>
                       /\ \/ last.response = "render:form_errors"
                          \/ TurnedAway

\* C29 witness: a signup repeated the address of a Subscriber whose window
\* had closed before the sweep ran, and got the form's errors.
C29_Witness ==
    /\ SignupPost
    /\ last.response = "render:form_errors"
    /\ \E s \in last.pre.subscribers, p \in last.pre.profiles :
          /\ p.subscriber = s.id
          /\ SHA1_RE(p.activation_key)
          /\ ~s.is_active
          /\ now >= s.date_joined + window
          /\ lower(strip(last.arg)) = lower(s.email)

\* C30: when a receiver of subscriber_registered or subscriber_activated
\* raises, the request ends in an error and what it wrote stays: the new
\* Subscriber and its profile for a signup, is_active, the deactivation key
\* and the sentinel for an activation.
C30_Theorem ==
    /\ (SignupPost /\ last.fault = "signal")
          => /\ last.response = "error"
             /\ last.raised # ""
             /\ \E s \in subscribers \ last.pre.subscribers :
                   /\ s.id = last.ret
                   /\ DoubleOptIn
                         => \E p \in profiles \ last.pre.profiles :
                               /\ p.subscriber = s.id
                               /\ SHA1_RE(p.activation_key)
    /\ (ConfirmGet /\ last.fault = "signal")
          => /\ last.response = "error"
             /\ last.raised # ""
             /\ \E s \in subscribers, p \in profiles :
                   /\ s.id = last.ret
                   /\ s.is_active
                   /\ s.deactivation_key = last.arg
                   /\ p.subscriber = s.id
                   /\ p.activation_key = ACTIVATED

\* C30 witness: a receiver of subscriber_registered raised during a signup
\* of the default backend.
C30_Witness ==
    /\ SignupPost
    /\ urlconf = "default"
    /\ last.fault = "signal"
    /\ last.response = "error"
    /\ Len(last.mail) = 1

====
